---- MODULE Spec2Model ----
(***************************************************************************)
(* A model of litebook: litebook.order.Order / Fill and                    *)
(* litebook.book.OrderBook.  Prices are counted in a fixed price unit (so  *)
(* that a tick size of 2 units leaves room for tick-misaligned prices),    *)
(* quantities are positive integers, an order id is the position of the    *)
(* order in the sequence of all orders ever constructed (uuid4 ids are     *)
(* fresh, so distinct orders have distinct ids).  An optional value is the *)
(* empty set (Python's None) or the singleton of its value.                *)
(***************************************************************************)
EXTENDS Integers, Sequences, FiniteSets, TLC

\* ------------------------------------------------------------------ bounds
MaxOrders == 3      \* Order objects ever constructed
MaxPrice  == 4      \* prices range over 1..MaxPrice price units
MaxQty    == 2      \* quantities range over 1..MaxQty
TickSize  == 2      \* tick_size is None or TickSize price units
MaxDepth  == 0      \* market_depth ranges over None, 0..MaxDepth
MaxAdds   == 3      \* calls of OrderBook.add
FineTick  == 1      \* the tick size of the books that prune by depth
MaxWindow == 1      \* their market_depth ranges over 0..MaxWindow
MaxRemovals == 1    \* calls of cancel and clear that change the book

VARIABLES
    tick_size,      \* OrderBook.tick_size: None or a tick size
    market_depth,   \* OrderBook.market_depth: None or a number of ticks
    orders,         \* every Order constructed so far, by id
    bids,           \* OrderBook.bids: price -> queue of order ids
    asks,           \* OrderBook.asks: price -> queue of order ids
    open_orders,    \* OrderBook.open_orders: the ids it maps
    returned,       \* history: the last add that passed the tick check,
                    \* the order it was given and the fills it returned
    submitted,      \* history: the orders OrderBook.add was ever given
    acct            \* history: the number of add calls, the quantities
                    \* admitted, filled, canceled, pruned and cleared, and
                    \* the number of cancel and clear calls that changed
                    \* the book

vars == <<tick_size, market_depth, orders, bids, asks, open_orders, returned,
          submitted, acct>>

\* ------------------------------------------------------------ basic values
None == {}
Some(v) == {v}
Val(opt) == CHOOSE v \in opt : TRUE

BUY == "BUY"
SELL == "SELL"
OPEN == "OPEN"
FILLED == "FILLED"
CANCELED == "CANCELED"

OrderType == {BUY, SELL}
OrderStatus == {OPEN, FILLED, CANCELED}

Min(a, b) == IF a <= b THEN a ELSE b
SetMax(S) == CHOOSE x \in S : \A y \in S : y <= x
SetMin(S) == CHOOSE x \in S : \A y \in S : x <= y

RECURSIVE SumSeq(_)
SumSeq(s) == IF s = <<>> THEN 0 ELSE Head(s) + SumSeq(Tail(s))

\* The sequence s without its i-th element (list.pop(i), del list[i]).
RemoveAt(s, i) == [k \in 1..(Len(s) - 1) |-> IF k < i THEN s[k] ELSE s[k + 1]]

\* A price-level map without the level p (del book[p]).
DelLevel(book, p) == [q \in (DOMAIN book) \ {p} |-> book[q]]

\* A price-level map with level p set to queue (book[p] = queue).
SetLevel(book, p, queue) ==
    [q \in (DOMAIN book) \cup {p} |-> IF q = p THEN queue ELSE book[q]]

Ids == 1..Len(orders)

\* ------------------------------------------------------------------- Order
valid_args_quantity_only(price, quantity) == quantity > 0

valid_args_price_only(price, quantity) == price > 0

\* Order.__init__: `assert price > 0` and `assert quantity > 0`.
valid_args(price, quantity) == price > 0 /\ quantity > 0

\* datetime.datetime.now(datetime.UTC) in Order.__init__.  Time is counted in
\* Order constructions: the module litebook.order is imported at time 0 and
\* the k-th order is constructed at time k.
now == Len(orders) + 1

\* Fill.timestamp: the default of the field, datetime.datetime.now evaluated
\* once, when the class body runs at the import of the module.
FillTimestampDefault == 0

\* Order.__init__: a fresh id, status OPEN, no fills.  `initial` records the
\* quantity argument (history only; the program does not keep it).
NewOrderRec(side, price, quantity) ==
    [side |-> side, price |-> price, quantity |-> quantity, initial |-> quantity,
     status |-> OPEN, fills |-> <<>>, timestamp |-> now]

is_open_unless_filled(o) == o.status # FILLED

\* Order.is_open
is_open(o) == o.status = OPEN

matches_any_price(self, comparison) == self.side # comparison.side

\* Order.matches
matches(self, comparison) ==
    IF self.side = comparison.side
    THEN FALSE
    ELSE (self.side = BUY /\ self.price >= comparison.price)
         \/ (self.side = SELL /\ self.price <= comparison.price)

fill_quantity_unit(self, incoming_order) == 1

fill_quantity_self(self, incoming_order) == self.quantity

\* Order.fill, the quantity of the fill.
fill_quantity(self, incoming_order) == Min(self.quantity, incoming_order.quantity)

fill_price_next_unit(self, incoming_order) ==
    (IF self.side = SELL THEN self.price ELSE incoming_order.price) + 1

\* Order.fill, the price of the fill.
fill_price(self, incoming_order) ==
    IF self.side = SELL THEN self.price ELSE incoming_order.price

status_after_early(o, quantity) == IF quantity <= 1 THEN FILLED ELSE o.status

\* Order.fill, the status of an order after its quantity was adjusted.
status_after(o, quantity) == IF quantity = 0 THEN FILLED ELSE o.status

\* Order.fill: self is os[sid], incoming_order is os[iid].  The result is the
\* orders after the call and the Fill returned (None when they do not match).
OrderFill(os, sid, iid) ==
    LET self == os[sid]
        incoming_order == os[iid]
    IN  IF ~matches(self, incoming_order)
        THEN [orders |-> os, fill |-> None]
        ELSE LET q == fill_quantity(self, incoming_order)
                 f == [quantity |-> q,
                       price |-> fill_price(self, incoming_order),
                       buy_id |-> IF self.side = BUY THEN sid ELSE iid,
                       sell_id |-> IF self.side = SELL THEN sid ELSE iid,
                       timestamp |-> FillTimestampDefault]
                 upd(o) == [o EXCEPT !.quantity = @ - q,
                                     !.status = status_after(o, o.quantity - q),
                                     !.fills = Append(@, f)]
             IN  [orders |-> [k \in DOMAIN os |->
                                 IF k = sid \/ k = iid THEN upd(os[k]) ELSE os[k]],
                  fill |-> Some(f)]

\* --------------------------------------------------------------- OrderBook
\* The book and the orders while one call runs:
\*   [bids, asks, open_orders, orders, fills, pruned]
\* fills is the list the call accumulates; pruned is the quantity the call
\* evicted by depth pruning (history only).
Book == [bids |-> bids, asks |-> asks, open_orders |-> open_orders,
         orders |-> orders, fills |-> <<>>, pruned |-> 0]

best_bid_of_last(b) == IF DOMAIN b.bids # {} THEN Some(SetMin(DOMAIN b.bids)) ELSE None

\* OrderBook.best_bid / best_ask: bids is sorted on -price, so its first key
\* is the highest price; asks is sorted on price.
best_bid_of(b) == IF DOMAIN b.bids # {} THEN Some(SetMax(DOMAIN b.bids)) ELSE None
best_ask_of(b) == IF DOMAIN b.asks # {} THEN Some(SetMin(DOMAIN b.asks)) ELSE None
best_bid == best_bid_of(Book)
best_ask == best_ask_of(Book)

\* The truth value Python gives an optional price: None and 0 are false.
truthy(price) == price # None /\ Val(price) # 0

\* OrderBook.spread
spread_of(b) ==
    LET best_buy_price == IF DOMAIN b.bids # {} THEN Some(SetMax(DOMAIN b.bids))
                          ELSE None
        best_sell_price == IF DOMAIN b.asks # {} THEN Some(SetMin(DOMAIN b.asks))
                           ELSE None
    IN  IF truthy(best_buy_price) /\ truthy(best_sell_price)
        THEN Some(Val(best_sell_price) - Val(best_buy_price))
        ELSE None

_is_valid_price_any(price) == TRUE

\* OrderBook._is_valid_price
_is_valid_price(price) ==
    IF tick_size # None THEN (price % Val(tick_size)) = 0 ELSE TRUE

\* OrderBook._match: the book opposite to the incoming order, and the book b
\* with that side replaced.
opposite_book(b, incoming) == IF incoming.side = SELL THEN b.bids ELSE b.asks
WithOpposite(b, incoming, book) ==
    IF incoming.side = SELL THEN [b EXCEPT !.bids = book] ELSE [b EXCEPT !.asks = book]

peek_worst(b, incoming) ==
    IF incoming.side = SELL THEN SetMin(DOMAIN b.bids) ELSE SetMax(DOMAIN b.asks)

\* OrderBook._match: opposite_book.peekitem(0)[0]
peek_best(b, incoming) ==
    IF incoming.side = SELL THEN SetMax(DOMAIN b.bids) ELSE SetMin(DOMAIN b.asks)

level_stops_at_equal(incoming, best_price) ==
    (incoming.side = BUY /\ incoming.price <= best_price)
    \/ (incoming.side = SELL /\ incoming.price >= best_price)

\* OrderBook._match: the test that ends the traversal of the price levels.
level_stops(incoming, best_price) ==
    (incoming.side = BUY /\ incoming.price < best_price)
    \/ (incoming.side = SELL /\ incoming.price > best_price)

remove_filled_keeps_id(b, incoming, best_price, i, mid) ==
    LET book == opposite_book(b, incoming)
    IN  WithOpposite(b, incoming, [book EXCEPT ![best_price] = RemoveAt(@, i)])

\* OrderBook._match: a fully filled maker leaves the id map and the queue.
remove_filled(b, incoming, best_price, i, mid) ==
    LET b1 == [b EXCEPT !.open_orders = @ \ {mid}]
        book == opposite_book(b1, incoming)
    IN  WithOpposite(b1, incoming, [book EXCEPT ![best_price] = RemoveAt(@, i)])

collect_first(fills, fill) ==
    IF fills = <<>> /\ fill # None THEN <<Val(fill)>> ELSE fills

\* OrderBook._match: `if fill is not None: fills.append(fill)`
collect(fills, fill) == IF fill # None THEN Append(fills, Val(fill)) ELSE fills

\* OrderBook._match, the loop over the orders of one level, from index i.
RECURSIVE MatchLevel(_, _, _, _)
MatchLevel(b, iid, best_price, i) ==
    LET orders_at_level == opposite_book(b, b.orders[iid])[best_price]
    IN  IF ~(i <= Len(orders_at_level) /\ is_open(b.orders[iid]))
        THEN b
        ELSE LET mid == orders_at_level[i]
                 r == OrderFill(b.orders, mid, iid)
                 b1 == [b EXCEPT !.orders = r.orders,
                                 !.fills = collect(@, r.fill)]
             IN  IF b1.orders[mid].status = FILLED
                 THEN MatchLevel(remove_filled(b1, b1.orders[iid], best_price, i, mid),
                                 iid, best_price, i)
                 ELSE MatchLevel(b1, iid, best_price, i + 1)

\* OrderBook._match: a level whose queue emptied is deleted.
drop_empty_level(b, incoming, best_price) ==
    LET book == opposite_book(b, incoming)
    IN  IF book[best_price] = <<>>
        THEN WithOpposite(b, incoming, DelLevel(book, best_price))
        ELSE b

\* OrderBook._match, the loop over the price levels.
RECURSIVE _match(_, _)
_match(b, iid) ==
    LET incoming_order == b.orders[iid]
    IN  IF ~(is_open(incoming_order) /\ DOMAIN opposite_book(b, incoming_order) # {})
        THEN b
        ELSE LET best_price == peek_best(b, incoming_order)
             IN  IF level_stops(incoming_order, best_price)
                 THEN b
                 ELSE _match(drop_empty_level(MatchLevel(b, iid, best_price, 1),
                                              incoming_order, best_price),
                             iid)

rest_always(b, iid) ==
    LET order == b.orders[iid]
        order_book == IF order.side = BUY THEN b.bids ELSE b.asks
        queue == IF order.price \in DOMAIN order_book
                 THEN order_book[order.price] ELSE <<>>
        book == SetLevel(order_book, order.price, Append(queue, iid))
    IN  [(IF order.side = BUY THEN [b EXCEPT !.bids = book]
                              ELSE [b EXCEPT !.asks = book])
            EXCEPT !.open_orders = @ \cup {iid}]

rest_unless_filled(b, iid) ==
    LET order == b.orders[iid]
        order_book == IF order.side = BUY THEN b.bids ELSE b.asks
        queue == IF order.price \in DOMAIN order_book
                 THEN order_book[order.price] ELSE <<>>
        book == SetLevel(order_book, order.price, Append(queue, iid))
    IN  IF order.status # FILLED
        THEN [(IF order.side = BUY THEN [b EXCEPT !.bids = book]
                                   ELSE [b EXCEPT !.asks = book])
                 EXCEPT !.open_orders = @ \cup {iid}]
        ELSE b

rest_at_head(b, iid) ==
    LET order == b.orders[iid]
        order_book == IF order.side = BUY THEN b.bids ELSE b.asks
        queue == IF order.price \in DOMAIN order_book
                 THEN order_book[order.price] ELSE <<>>
        book == SetLevel(order_book, order.price, <<iid>> \o queue)
    IN  IF is_open(order)
        THEN [(IF order.side = BUY THEN [b EXCEPT !.bids = book]
                                   ELSE [b EXCEPT !.asks = book])
                 EXCEPT !.open_orders = @ \cup {iid}]
        ELSE b

\* OrderBook.add: an order still open rests at the tail of its level and is
\* entered in the id map.
rest(b, iid) ==
    LET order == b.orders[iid]
        order_book == IF order.side = BUY THEN b.bids ELSE b.asks
        queue == IF order.price \in DOMAIN order_book
                 THEN order_book[order.price] ELSE <<>>
        book == SetLevel(order_book, order.price, Append(queue, iid))
    IN  IF is_open(order)
        THEN [(IF order.side = BUY THEN [b EXCEPT !.bids = book]
                                   ELSE [b EXCEPT !.asks = book])
                 EXCEPT !.open_orders = @ \cup {iid}]
        ELSE b

RECURSIVE QtyOf(_, _)
QtyOf(os, queue) ==
    IF queue = <<>> THEN 0 ELSE os[Head(queue)].quantity + QtyOf(os, Tail(queue))

Range(s) == {s[k] : k \in DOMAIN s}

remove_levels_canceling(b, isBids, prices) ==
    LET book == IF isBids THEN b.bids ELSE b.asks
        gone == UNION {Range(book[p]) : p \in prices}
        kept == [p \in (DOMAIN book) \ prices |-> book[p]]
        b1 == [b EXCEPT !.open_orders = @ \ gone,
                        !.orders = [k \in DOMAIN @ |->
                                       IF k \in gone
                                       THEN [@[k] EXCEPT !.status = CANCELED]
                                       ELSE @[k]]]
    IN  IF isBids THEN [b1 EXCEPT !.bids = kept] ELSE [b1 EXCEPT !.asks = kept]

\* OrderBook._remove_price_level on a set of levels of one side.
remove_levels(b, isBids, prices) ==
    LET book == IF isBids THEN b.bids ELSE b.asks
        gone == UNION {Range(book[p]) : p \in prices}
        kept == [p \in (DOMAIN book) \ prices |-> book[p]]
        qty == [p \in prices |-> QtyOf(b.orders, book[p])]
        RECURSIVE Total(_)
        Total(S) == IF S = {} THEN 0
                    ELSE LET p == CHOOSE x \in S : TRUE IN qty[p] + Total(S \ {p})
        b1 == [b EXCEPT !.open_orders = @ \ gone, !.pruned = @ + Total(prices)]
    IN  IF isBids THEN [b1 EXCEPT !.bids = kept] ELSE [b1 EXCEPT !.asks = kept]

bid_lower_bound_wide(b) ==
    Val(best_bid_of(b)) - Val(tick_size) * (Val(market_depth) + 1)

bid_lower_bound_ticks(b) == Val(best_bid_of(b)) - Val(market_depth)

\* OrderBook._enforce_market_depth: the bounds of the window.
bid_lower_bound(b) == Val(best_bid_of(b)) - Val(tick_size) * Val(market_depth)
ask_upper_bound(b) == Val(best_ask_of(b)) + Val(tick_size) * Val(market_depth)

_enforce_market_depth_best_only(b) ==
    LET b1 == IF DOMAIN b.bids # {}
              THEN remove_levels(b, TRUE,
                       {p \in DOMAIN b.bids : p < SetMax(DOMAIN b.bids)})
              ELSE b
    IN  IF DOMAIN b.asks # {}
        THEN remove_levels(b1, FALSE,
                 {p \in DOMAIN b.asks : p > SetMin(DOMAIN b.asks)})
        ELSE b1

\* OrderBook._enforce_market_depth
_enforce_market_depth(b) ==
    IF tick_size = None \/ market_depth = None
       \/ ~(DOMAIN b.bids # {} \/ DOMAIN b.asks # {})
    THEN b
    ELSE LET b1 == IF DOMAIN b.bids # {}
                   THEN remove_levels(b, TRUE,
                            {p \in DOMAIN b.bids : p < bid_lower_bound(b)})
                   ELSE b
         IN  IF DOMAIN b.asks # {}
             THEN remove_levels(b1, FALSE,
                      {p \in DOMAIN b.asks : p > ask_upper_bound(b)})
             ELSE b1

\* OrderBook.add, after the tick check.
add_valid(b, iid) == _enforce_market_depth(rest(_match(b, iid), iid))

\* OrderBook.add: b.fills is the list it returns.
add(b, iid) ==
    IF ~_is_valid_price(b.orders[iid].price) THEN b ELSE add_valid(b, iid)

\* OrderBook.cancel / OrderBook.get: an id given as text goes through
\* uuid.UUID(text), which raises ValueError on text that is no UUID.  An
\* argument is [form, id, wellformed]: form "uuid" is a native UUID, form "str"
\* is text, the hex form of id when wellformed.
IdArgs ==
    [form : {"uuid"}, id : 1..MaxOrders, wellformed : {TRUE}]
    \cup [form : {"str"}, id : 1..MaxOrders, wellformed : {TRUE}]
    \cup [form : {"str"}, id : {0}, wellformed : {FALSE}]

to_uuid_shifted(arg) ==
    IF arg.form = "str"
    THEN IF arg.wellformed THEN Some((arg.id % MaxOrders) + 1) ELSE None
    ELSE Some(arg.id)

\* uuid.UUID(order_id) for text, the id itself otherwise; None when it raises.
to_uuid(arg) ==
    IF arg.form = "str"
    THEN IF arg.wellformed THEN Some(arg.id) ELSE None
    ELSE Some(arg.id)

\* OrderBook.cancel: the position of the order in the queue of its level
\* (the enumerate loop), 0 when the loop finds none.
RECURSIVE find_in_queue(_, _, _)
find_in_queue(queue, id, i) ==
    IF i > Len(queue) THEN 0
    ELSE IF queue[i] = id THEN i
    ELSE find_in_queue(queue, id, i + 1)

unlink_keeps_level(order_book, price, i) ==
    [order_book EXCEPT ![price] = RemoveAt(@, i)]

unlink_drops_level(order_book, price, i) == DelLevel(order_book, price)

\* OrderBook.cancel: one side of the book without the entry i of level price.
unlink(order_book, price, i) ==
    LET queue == RemoveAt(order_book[price], i)
    IN  IF queue = <<>> THEN DelLevel(order_book, price)
        ELSE [order_book EXCEPT ![price] = queue]

order_cancel_noop(o) == o

\* Order.cancel
order_cancel(o) == [o EXCEPT !.status = CANCELED]

\* OrderBook.cancel for an id the id map holds.
cancel_known(b, id) ==
    LET order == b.orders[id]
        order_book == IF order.side = BUY THEN b.bids ELSE b.asks
        i == IF order.price \in DOMAIN order_book
             THEN find_in_queue(order_book[order.price], id, 1) ELSE 0
        b1 == IF i = 0 THEN b
              ELSE LET book == unlink(order_book, order.price, i)
                       b0 == [b EXCEPT !.orders[id] = order_cancel(order)]
                   IN  IF order.side = BUY THEN [b0 EXCEPT !.bids = book]
                                           ELSE [b0 EXCEPT !.asks = book]
    IN  [b1 EXCEPT !.open_orders = @ \ {id}]

\* OrderBook.cancel: raised tells whether the call raised (ValueError from
\* uuid.UUID), value is what it returned (the method has no return statement,
\* so None), book is the book after the call.
cancel(b, arg) ==
    IF to_uuid(arg) = None
    THEN [raised |-> TRUE, value |-> None, book |-> b]
    ELSE LET order_id == Val(to_uuid(arg))
         IN  [raised |-> FALSE, value |-> None,
              book |-> IF order_id \in b.open_orders
                       THEN cancel_known(b, order_id) ELSE b]

get_found_ever(b, order_id) == order_id \in DOMAIN b.orders

\* OrderBook.get: order_id in self.open_orders
get_found(b, order_id) == order_id \in b.open_orders

\* OrderBook.get: raised tells whether the call raised (ValueError from
\* uuid.UUID), value is the order returned (by its id) or None.
get(b, arg) ==
    IF to_uuid(arg) = None
    THEN [raised |-> TRUE, value |-> None]
    ELSE LET order_id == Val(to_uuid(arg))
         IN  [raised |-> FALSE,
              value |-> IF get_found(b, order_id) THEN Some(order_id) ELSE None]

clear_levels_only(b) == [b EXCEPT !.bids = <<>>, !.asks = <<>>]

\* OrderBook.clear
clear(b) == [b EXCEPT !.bids = <<>>, !.asks = <<>>, !.open_orders = {}]

level_setdefault(order_book, price) ==
    IF price \in DOMAIN order_book
    THEN [queue |-> order_book[price], book |-> order_book]
    ELSE [queue |-> <<>>, book |-> SetLevel(order_book, price, <<>>)]

\* OrderBook.get_orders_at_price: order_book.get(price, []), the queue it
\* yields and the side of the book after the lookup.
level_get(order_book, price) ==
    [queue |-> IF price \in DOMAIN order_book THEN order_book[price] ELSE <<>>,
     book |-> order_book]

slice_from(s, k) ==
    IF k >= 0
    THEN SubSeq(s, Min(k, Len(s)) + 1, Len(s))
    ELSE SubSeq(s, Len(s) + k + 1, Len(s))

\* The Python slice s[:k]: the first k elements for k >= 0 (all of s when k
\* exceeds its length), all but the last -k elements for k < 0.
slice_to(s, k) ==
    IF k >= 0
    THEN SubSeq(s, 1, Min(k, Len(s)))
    ELSE SubSeq(s, 1, IF Len(s) + k > 0 THEN Len(s) + k ELSE 0)

\* OrderBook.get_orders_at_price(price, side, k): value is the list returned
\* (the orders by id), book is the book after the call.  decimal.Decimal(price)
\* of a price that is a Decimal is that price.
get_orders_at_price(b, price, side, k) ==
    LET order_book == IF side = BUY THEN b.bids ELSE b.asks
        r == level_get(order_book, price)
        orders_at_price == r.queue
    IN  [value |-> IF k # None THEN slice_to(orders_at_price, Val(k))
                   ELSE orders_at_price,
         book |-> IF side = BUY THEN [b EXCEPT !.bids = r.book]
                                ELSE [b EXCEPT !.asks = r.book]]

\* OrderBook.buy_volume / sell_volume / open_volume
RECURSIVE volume(_, _)
volume(os, book) ==
    IF DOMAIN book = {} THEN 0
    ELSE LET p == CHOOSE x \in DOMAIN book : TRUE
         IN  QtyOf(os, book[p]) + volume(os, DelLevel(book, p))
buy_volume == volume(orders, bids)
sell_volume == volume(orders, asks)
open_volume == buy_volume + sell_volume

\* ----------------------------------------------------------------- actions
\* An order rests in the book when a queue of either side holds it.
Resting(id) ==
    \/ \E p \in DOMAIN bids : id \in Range(bids[p])
    \/ \E p \in DOMAIN asks : id \in Range(asks[p])

Init ==
    /\ tick_size \in {None, Some(TickSize)}
    /\ market_depth \in {None} \cup {Some(d) : d \in 0..MaxDepth}
    /\ orders = <<>>
    /\ bids = <<>>
    /\ asks = <<>>
    /\ open_orders = {}
    /\ returned = [id |-> 0, fills |-> <<>>]
    /\ submitted = {}
    /\ acct = [adds |-> 0, admitted |-> 0, filled |-> 0, canceled |-> 0, pruned |-> 0,
               cleared |-> 0, removals |-> 0]

\* OrderBook(tick_size, market_depth) with both set: the books that prune.
InitDepth ==
    /\ tick_size \in {Some(FineTick), Some(TickSize)}
    /\ market_depth \in {Some(d) : d \in 0..MaxWindow}
    /\ orders = <<>>
    /\ bids = <<>>
    /\ asks = <<>>
    /\ open_orders = {}
    /\ returned = [id |-> 0, fills |-> <<>>]
    /\ submitted = {}
    /\ acct = [adds |-> 0, admitted |-> 0, filled |-> 0, canceled |-> 0, pruned |-> 0,
               cleared |-> 0, removals |-> 0]

\* OrderBook(tick_size=None): every price is admitted and nothing is pruned.
\* The queries read neither tick_size nor market_depth.
InitPlain ==
    /\ tick_size = None
    /\ market_depth = None
    /\ orders = <<>>
    /\ bids = <<>>
    /\ asks = <<>>
    /\ open_orders = {}
    /\ returned = [id |-> 0, fills |-> <<>>]
    /\ submitted = {}
    /\ acct = [adds |-> 0, admitted |-> 0, filled |-> 0, canceled |-> 0, pruned |-> 0,
               cleared |-> 0, removals |-> 0]

\* Order(side, price, quantity): it raises AssertionError, and no order
\* exists, unless price > 0 and quantity > 0.  Constructing an order touches
\* no book, so it commutes with every call on the book: an order is
\* constructed right before it is first given to add.
NewOrder(side, price, quantity) ==
    /\ Len(orders) < MaxOrders
    /\ acct.adds < MaxAdds
    /\ \A id \in Ids : id \in submitted
    /\ orders' = IF valid_args(price, quantity)
                 THEN Append(orders, NewOrderRec(side, price, quantity))
                 ELSE orders
    /\ UNCHANGED <<tick_size, market_depth, bids, asks, open_orders, returned,
                   submitted, acct>>

\* OrderBook.add(order) of an order the book does not hold: a new order, or
\* one the book released (filled, canceled, pruned or cleared).
Add(id) ==
    /\ id \in Ids
    /\ ~Resting(id)
    /\ acct.adds < MaxAdds
    /\ submitted' = submitted \cup {id}
    /\ LET b == add(Book, id)
           valid == _is_valid_price(orders[id].price)
       IN  /\ orders' = b.orders
           /\ bids' = b.bids
           /\ asks' = b.asks
           /\ open_orders' = b.open_orders
           /\ returned' = IF valid THEN [id |-> id, fills |-> b.fills] ELSE returned
           /\ acct' = [acct EXCEPT
                 !.adds = @ + 1,
                 !.admitted = @ + (IF valid /\ is_open(orders[id])
                                   THEN orders[id].quantity ELSE 0),
                 !.filled = @ + SumSeq([k \in DOMAIN b.fills |->
                                           b.fills[k].quantity]),
                 !.pruned = @ + b.pruned]
    /\ UNCHANGED <<tick_size, market_depth>>

\* OrderBook.cancel(order_id).  A call that leaves the book as it was is a
\* stuttering step at any time; the calls that change it are counted.
Cancel(arg) ==
    /\ arg \in IdArgs
    /\ acct.removals < MaxRemovals
    /\ UNCHANGED <<tick_size, market_depth, returned, submitted>>
    /\ LET b == cancel(Book, arg).book
           gone == {id \in Ids : b.orders[id].status = CANCELED
                                 /\ orders[id].status # CANCELED}
       IN  /\ orders' = b.orders
           /\ bids' = b.bids
           /\ asks' = b.asks
           /\ open_orders' = b.open_orders
           /\ acct' = [acct EXCEPT !.canceled = @ +
                 (IF gone = {} THEN 0 ELSE orders[CHOOSE id \in gone : TRUE].quantity),
                 !.removals = @ + (IF b = Book THEN 0 ELSE 1)]

\* OrderBook.clear()
Clear ==
    /\ acct.removals < MaxRemovals
    /\ bids' = clear(Book).bids
    /\ asks' = clear(Book).asks
    /\ open_orders' = clear(Book).open_orders
    /\ acct' = [acct EXCEPT !.cleared = @ + open_volume,
                             !.removals = @ + (IF clear(Book) = Book THEN 0 ELSE 1)]
    /\ UNCHANGED <<tick_size, market_depth, orders, returned, submitted>>

DoNewOrder == \E side \in OrderType, price \in 0..MaxPrice, quantity \in 0..MaxQty :
                 NewOrder(side, price, quantity)
DoAdd == \E id \in 1..MaxOrders : Add(id)
DoCancel == \E arg \in IdArgs : Cancel(arg)

Next == DoNewOrder \/ DoAdd \/ DoCancel \/ Clear

Spec == Init /\ [][Next]_vars

\* The same calls on a book without tick size and market depth.
SpecPlain == InitPlain /\ [][Next]_vars

\* The same calls on the books that prune by depth.
SpecDepth == InitDepth /\ [][Next]_vars

\* ------------------------------------------------------------------ claims
Queues == {<<"bids", p, i>> : p \in DOMAIN bids, i \in 1..MaxOrders}
          \cup {<<"asks", p, i>> : p \in DOMAIN asks, i \in 1..MaxOrders}

\* The queue entries of the book: <<side, price, position>>.
Entries ==
    {e \in Queues : e[3] <= Len(IF e[1] = "bids" THEN bids[e[2]] ELSE asks[e[2]])}
EntryId(e) == IF e[1] = "bids" THEN bids[e[2]][e[3]] ELSE asks[e[2]][e[3]]
EntrySide(e) == IF e[1] = "bids" THEN BUY ELSE SELL
EntriesOf(id) == {e \in Entries : EntryId(e) = id}

FillQuantities(fills) == [k \in DOMAIN fills |-> fills[k].quantity]

\* The maker of a fill returned by add(o): the order of the fill that is not o.
Maker(f, iid) == IF f.buy_id = iid THEN f.sell_id ELSE f.buy_id

\* C1: whenever both sides hold orders, the best bid is strictly below the
\* best ask.
C1_NoCrossedBook ==
    (best_bid # None /\ best_ask # None) => Val(best_bid) < Val(best_ask)

\* Both sides hold orders right after an add that matched and then rested.
C1_Witness ==
    /\ best_bid # None /\ best_ask # None
    /\ returned.fills # <<>>
    /\ Resting(returned.id)

\* C2: every fill returned by add(o) has the price of the resting order it
\* was matched against.
C2_MakerPrice ==
    \A k \in DOMAIN returned.fills :
        returned.fills[k].price = orders[Maker(returned.fills[k], returned.id)].price

C6_NoEmptyLevel ==
    /\ \A p \in DOMAIN bids : bids[p] # <<>>
    /\ \A p \in DOMAIN asks : asks[p] # <<>>

\* An order left the book by a fill or a cancel, its level went with it, and
\* the book still holds orders.
C6_Witness ==
    /\ Entries # {}
    /\ \E id \in Ids :
          /\ orders[id].status \in {FILLED, CANCELED}
          /\ id \in submitted
          /\ orders[id].price \notin
                DOMAIN (IF orders[id].side = BUY THEN bids ELSE asks)

\* C8: the fills recorded in an order sum to its original quantity minus its
\* current quantity, never exceed the original quantity, and reach it exactly
\* when the order is Filled.
C8_FillAccounting ==
    \A id \in Ids :
        LET o == orders[id]
            total == SumSeq(FillQuantities(o.fills))
        IN  /\ total = o.initial - o.quantity
            /\ total <= o.initial
            /\ (total = o.initial) <=> (o.status = FILLED)

\* One order is partially filled, one is filled, one was canceled after a
\* partial fill.
C8_Witness ==
    /\ \E id \in Ids : orders[id].status = FILLED /\ orders[id].fills # <<>>
    /\ \E id \in Ids : /\ orders[id].status = CANCELED
                       /\ orders[id].fills # <<>>
                       /\ orders[id].quantity > 0

\* Every call of add, and no other call, counts in acct.adds.
AddStep == acct'.adds = acct.adds + 1

\* The orders of one side in price-time priority: level by level from the
\* best price (the highest when highFirst, the lowest otherwise), each level
\* from the head of its queue.
RECURSIVE PriorityList(_, _)
PriorityList(book, highFirst) ==
    IF DOMAIN book = {} THEN <<>>
    ELSE LET p == IF highFirst THEN SetMax(DOMAIN book) ELSE SetMin(DOMAIN book)
         IN  book[p] \o PriorityList(DelLevel(book, p), highFirst)

\* C3: the fills add(o) returns name the makers in price-time priority: the
\* makers are a prefix of the opposite side's priority list, each crosses o,
\* and every maker but the last one filled is left with no quantity.
C3_PriceTimePriority ==
    [][\A id \in 1..MaxOrders :
          (AddStep /\ Add(id) /\ _is_valid_price(orders[id].price)) =>
              LET o == orders[id]
                  pl == PriorityList(IF o.side = SELL THEN bids ELSE asks,
                                     o.side = SELL)
                  fs == returned'.fills
              IN  /\ Len(fs) <= Len(pl)
                  /\ \A k \in DOMAIN fs :
                        /\ Maker(fs[k], id) = pl[k]
                        /\ matches(orders[pl[k]], o)
                        /\ k < Len(fs) => orders'[pl[k]].quantity = 0]_vars

\* The last add filled against two makers.
C3_Witness ==
    /\ Len(returned.fills) >= 2
    /\ Maker(returned.fills[1], returned.id) # Maker(returned.fills[2], returned.id)

Without(bk, id) ==
    LET Other(x) == x # id
    IN  [p \in {q \in DOMAIN bk : SelectSeq(bk[q], Other) # <<>>} |->
            SelectSeq(bk[p], Other)]

RestingIn(bk_bids, bk_asks, id) ==
    \/ \E p \in DOMAIN bk_bids : id \in Range(bk_bids[p])
    \/ \E p \in DOMAIN bk_asks : id \in Range(bk_asks[p])

\* The makers add(id) left partially filled: resting before and after the
\* call, with a quantity the call reduced.
PartialMakers(id) ==
    {m \in open_orders : /\ orders'[m].quantity < orders[m].quantity
                         /\ orders'[m].quantity > 0
                         /\ orders'[m].status = OPEN
                         /\ RestingIn(bids', asks', m)}

\* At most one maker is left partially filled, and it is the last one touched.
OnePartialMaker(id) ==
    /\ Cardinality(PartialMakers(id)) <= 1
    /\ \A m \in PartialMakers(id) :
          /\ returned'.fills # <<>>
          /\ m = Maker(returned'.fills[Len(returned'.fills)], id)

\* The incoming order is Filled and out of the book.
IncomingFilled(id) ==
    /\ orders'[id].status = FILLED
    /\ ~RestingIn(bids', asks', id)
    /\ id \notin open_orders'

\* The incoming order rests on its own side, at the tail of the level of its
\* price, with the quantity the fills left.
IncomingRested(id) ==
    LET o == orders'[id]
        own == IF o.side = BUY THEN bids' ELSE asks'
        other == IF o.side = BUY THEN asks' ELSE bids'
    IN  /\ o.status = OPEN
        /\ id \in open_orders'
        /\ o.price \in DOMAIN own
        /\ own[o.price][Len(own[o.price])] = id
        /\ ~RestingIn(other, <<>>, id)
        /\ o.quantity > 0
        /\ o.quantity = orders[id].quantity - SumSeq(FillQuantities(returned'.fills))

\* The incoming order rested outside the depth window and was evicted by the
\* pruning of the same call: Open, with the quantity the fills left, out of
\* the book and of open_orders.
IncomingEvicted(id) ==
    LET o == orders'[id]
    IN  /\ tick_size # None /\ market_depth # None
        /\ o.status = OPEN
        /\ o.quantity = orders[id].quantity - SumSeq(FillQuantities(returned'.fills))
        /\ id \notin open_orders'
        /\ ~RestingIn(bids', asks', id)
        /\ IF o.side = BUY
           THEN /\ bids' # <<>>
                /\ o.price < SetMax(DOMAIN bids') - Val(tick_size) * Val(market_depth)
           ELSE /\ asks' # <<>>
                /\ o.price > SetMin(DOMAIN asks') + Val(tick_size) * Val(market_depth)

\* C9 as stated: in every add(o) at most one maker is left partially filled,
\* the last one touched, and on return o is Filled or rests on its own side.
C9_AsStated ==
    [][\A id \in 1..MaxOrders :
          (AddStep /\ Add(id)) =>
              /\ OnePartialMaker(id)
              /\ (IncomingFilled(id) \/ IncomingRested(id))]_vars

\* C9 amended: in every add(o) at most one maker is left partially filled,
\* the last one touched; and on return an order o that was Open and priced on
\* a tick is Filled and out of the book, or rests on its own side with its
\* residual quantity, or was evicted by the depth pruning of the same call.
C9_AddOutcome ==
    [][\A id \in 1..MaxOrders :
          (AddStep /\ Add(id)) =>
              /\ OnePartialMaker(id)
              /\ (is_open(orders[id]) /\ _is_valid_price(orders[id].price)) =>
                    \/ IncomingFilled(id)
                    \/ IncomingRested(id)
                    \/ IncomingEvicted(id)]_vars

\* The last add filled its order and left its last maker partially filled
\* and resting.
C9_Witness ==
    /\ returned.fills # <<>>
    /\ orders[returned.id].status = FILLED
    /\ LET m == Maker(returned.fills[Len(returned.fills)], returned.id)
       IN  /\ Resting(m)
           /\ orders[m].status = OPEN
           /\ 0 < orders[m].quantity /\ orders[m].quantity < orders[m].initial

\* The forms in which a caller can give the id of an order to cancel or get.
ArgsOf(id) == {arg \in IdArgs : to_uuid(arg) = Some(id)}

Truth(value) == value = Some(TRUE)

\* The forms that denote the order id: its UUID and the hex text of its UUID.
FormsOf(id) == {arg \in IdArgs : arg.wellformed /\ arg.id = id}

\* C11: cancel(id) returns true when id denotes a resting order, which it
\* cancels, and returns false when open_orders lacks id or the order is no
\* longer Open.
C11_CancelReturn ==
    \A id \in 1..MaxOrders : \A arg \in FormsOf(id) :
        LET r == cancel(Book, arg)
        IN  /\ (id \in open_orders /\ r.book.orders[id].status = CANCELED)
                  => Truth(r.value)
            /\ (id \notin open_orders \/ ~is_open(orders[id])) => ~Truth(r.value)

\* C12: cancel(id) of an order a cancel made Canceled changes nothing: the
\* queues, open_orders and every order's status, quantity and fills stay.
C12_CancelIdempotent ==
    \A id \in Ids :
        orders[id].status = CANCELED =>
            \A arg \in FormsOf(id) : cancel(Book, arg).book = Book

\* An order was canceled and an order of the other side rests.
C12_Witness ==
    \E id \in Ids, o \in Ids :
        /\ orders[id].status = CANCELED
        /\ Resting(o)
        /\ orders[o].side # orders[id].side

\* C13: for every argument that denotes no resting order, a UUID or text,
\* well-formed or not, get returns None without raising and cancel returns
\* without raising and leaves the book as it was.
C13_UnknownNeverRaises ==
    \A arg \in IdArgs :
        ~(arg.wellformed /\ arg.id \in Ids /\ Resting(arg.id)) =>
            /\ get(Book, arg) = [raised |-> FALSE, value |-> None]
            /\ ~cancel(Book, arg).raised
            /\ cancel(Book, arg).book = Book

\* The price of the order is no multiple of the tick size the book has.
Misaligned(id) == tick_size # None /\ orders[id].price % Val(tick_size) # 0

\* C14: add of an order whose price is no multiple of the tick size returns
\* the empty list, matches nothing, admits nothing, and leaves the queues,
\* open_orders and every order as they were.
C14_TickReject ==
    [][\A id \in 1..MaxOrders :
          (AddStep /\ Add(id) /\ Misaligned(id)) =>
              /\ add(Book, id).fills = <<>>
              /\ orders' = orders
              /\ bids' = bids
              /\ asks' = asks
              /\ open_orders' = open_orders
              /\ acct'.admitted = acct.admitted
              /\ acct'.filled = acct.filled]_vars

\* An order off the tick was given to add while an order it crosses rests:
\* it is Open, unfilled and out of the book.
C14_Witness ==
    \E id \in submitted, m \in open_orders :
        /\ Misaligned(id)
        /\ matches(orders[m], orders[id])
        /\ Resting(m)
        /\ orders[id].status = OPEN
        /\ orders[id].fills = <<>>
        /\ id \notin open_orders

\* C15: a construction with price <= 0 or quantity <= 0 yields no order and
\* changes no book; every order constructed, and so every order given to add,
\* has a price above 0 and an initial quantity above 0.
C15_ConstructionChecked ==
    [][/\ Len(orders') > Len(orders) =>
             /\ orders'[Len(orders')].price > 0
             /\ orders'[Len(orders')].initial > 0
             /\ UNCHANGED <<bids, asks, open_orders>>
       /\ \A id \in 1..MaxOrders :
             (AddStep /\ Add(id)) => orders[id].price > 0 /\ orders[id].initial > 0
       /\ (<<bids, asks, open_orders>>' # <<bids, asks, open_orders>>) =>
             \A side \in OrderType, price \in 0..MaxPrice, quantity \in 0..MaxQty :
                 ~(price > 0 /\ quantity > 0) => ~NewOrder(side, price, quantity)]_vars

\* Orders were constructed while the book held orders, one of them not yet
\* given to add.
C15_Witness ==
    /\ open_orders # {}
    /\ Len(orders) > Cardinality(submitted)
    /\ Len(orders) >= 2

\* The levels of book within Val(market_depth) ticks of its best price.
WindowBids(book) ==
    {p \in DOMAIN book :
        p >= SetMax(DOMAIN book) - Val(market_depth) * Val(tick_size)}
WindowAsks(book) ==
    {p \in DOMAIN book :
        p <= SetMin(DOMAIN book) + Val(market_depth) * Val(tick_size)}
Restrict(book, prices) == [p \in prices |-> book[p]]

\* C16: with tick_size and market_depth = N set, the depth enforcement that
\* ends add(o) removes exactly the bid levels below best_bid - N * tick_size
\* and the ask levels above best_ask + N * tick_size of the book as matching
\* and resting left it, takes their orders out of open_orders, and keeps
\* every other level, queue and order.
C16_DepthWindow ==
    [][\A id \in 1..MaxOrders :
          (AddStep /\ Add(id) /\ tick_size # None /\ market_depth # None
           /\ ~Misaligned(id)) =>
              LET r == rest(_match(Book, id), id)
                  keptBids == WindowBids(r.bids)
                  keptAsks == WindowAsks(r.asks)
                  gone == UNION ({Range(r.bids[p]) : p \in (DOMAIN r.bids) \ keptBids}
                                 \cup {Range(r.asks[p]) :
                                          p \in (DOMAIN r.asks) \ keptAsks})
              IN  /\ bids' = Restrict(r.bids, keptBids)
                  /\ asks' = Restrict(r.asks, keptAsks)
                  /\ open_orders' = r.open_orders \ gone
                  /\ orders' = r.orders]_vars

\* With a window of N > 0 ticks, quantity was pruned and a bid level exactly
\* N ticks below the best bid rests.
C16_Witness ==
    /\ tick_size # None /\ market_depth # None
    /\ Val(market_depth) > 0
    /\ acct.pruned > 0
    /\ \E p \in DOMAIN bids :
          p = SetMax(DOMAIN bids) - Val(market_depth) * Val(tick_size)

\* C17: without a tick size or without a market depth nothing is pruned:
\* as long as nothing was cleared, every order add admitted that is neither
\* Filled nor Canceled rests and is in open_orders.
C17_NoPruningWhenUnset ==
    (tick_size = None \/ market_depth = None) =>
        /\ acct.pruned = 0
        /\ acct.cleared = 0 =>
              \A id \in submitted :
                  (orders[id].status = OPEN /\ ~Misaligned(id)) =>
                      id \in open_orders /\ Resting(id)

\* A book with a market depth and no tick size holds bid levels that are not
\* neighbours.
C17_Witness ==
    /\ tick_size = None
    /\ market_depth # None
    /\ \E p \in DOMAIN bids, q \in DOMAIN bids : q - p >= 2

\* add(id) left the order Open with quantity to rest.
RestedBy(id) ==
    /\ ~Misaligned(id)
    /\ orders'[id].status = OPEN
    /\ orders'[id].quantity > 0

\* After add(id) the price of the order lies outside the depth window of its
\* side.
OutsideWindow(id) ==
    LET o == orders'[id]
    IN  /\ tick_size # None /\ market_depth # None
        /\ IF o.side = BUY
           THEN /\ bids' # <<>>
                /\ o.price < SetMax(DOMAIN bids') - Val(market_depth) * Val(tick_size)
           ELSE /\ asks' # <<>>
                /\ o.price > SetMin(DOMAIN asks') + Val(market_depth) * Val(tick_size)

\* C18 as stated: right after add(o), get(o.id) returns o when o rested and
\* None when it was filled or rejected, whatever the configuration.
C18_AsStated ==
    [][\A id \in 1..MaxOrders :
          (AddStep /\ Add(id)) =>
              \A arg \in FormsOf(id) :
                  get(Book', arg) =
                      [raised |-> FALSE,
                       value |-> IF RestedBy(id) THEN Some(id) ELSE None]]_vars

\* C18 amended: right after add(o), get(o.id) returns o when o rested and the
\* depth pruning of the same call did not evict it, and None otherwise.
C18_RoundTrip ==
    [][\A id \in 1..MaxOrders :
          (AddStep /\ Add(id)) =>
              \A arg \in FormsOf(id) :
                  get(Book', arg) =
                      [raised |-> FALSE,
                       value |-> IF RestedBy(id) /\ ~OutsideWindow(id)
                                 THEN Some(id) ELSE None]]_vars

\* The last add rested its order outside the depth window and pruned it: the
\* order is Open and get finds it under neither form.
C18_Witness ==
    /\ returned.id \in Ids
    /\ acct.cleared = 0
    /\ orders[returned.id].status = OPEN
    /\ returned.id \notin open_orders
    /\ \A arg \in FormsOf(returned.id) : get(Book, arg).value = None

RECURSIVE Decrease(_)
Decrease(S) ==
    IF S = {} THEN 0
    ELSE LET m == CHOOSE x \in S : TRUE
         IN  (orders[m].quantity - orders'[m].quantity) + Decrease(S \ {m})

\* C21: in add(o) the quantity or status of an order changes only if a fill
\* of the returned list names it; the returned quantities sum to the decrease
\* of o's quantity and to the decrease of the resting quantities; every
\* returned fill names o on o's side and an order that rested before the call
\* on the other; and when the list is empty no quantity or status changed.
C21_ExhaustiveReturn ==
    [][\A id \in 1..MaxOrders :
          (AddStep /\ Add(id)) =>
              LET fs == add(Book, id).fills
                  o == orders[id]
                  Named(m) == \E k \in DOMAIN fs : fs[k].buy_id = m \/ fs[k].sell_id = m
                  Changed(m) == \/ orders'[m].quantity # orders[m].quantity
                                \/ orders'[m].status # orders[m].status
                  RestedOpposite(m) == /\ m \in open_orders
                                       /\ Resting(m)
                                       /\ orders[m].side # o.side
              IN  /\ Len(orders') = Len(orders)
                  /\ \A m \in Ids : Changed(m) => Named(m)
                  /\ SumSeq(FillQuantities(fs)) = o.quantity - orders'[id].quantity
                  /\ SumSeq(FillQuantities(fs)) = Decrease(open_orders)
                  /\ \A k \in DOMAIN fs :
                        IF o.side = BUY
                        THEN fs[k].buy_id = id /\ RestedOpposite(fs[k].sell_id)
                        ELSE fs[k].sell_id = id /\ RestedOpposite(fs[k].buy_id)
                  /\ fs = <<>> => \A m \in Ids : ~Changed(m)]_vars

\* The last add returned two fills and filled its order, and an order rests.
C21_Witness ==
    /\ Len(returned.fills) >= 2
    /\ orders[returned.id].status = FILLED
    /\ open_orders # {}

\* C22: the timestamp of a fill is not earlier than the creation timestamp
\* of either order it pairs, and in the fills an order records a later fill
\* carries no earlier timestamp than a fill before it.
C22_FillTimestamps ==
    \A id \in Ids :
        LET fs == orders[id].fills
        IN  \A k \in DOMAIN fs :
                /\ fs[k].timestamp >= orders[fs[k].buy_id].timestamp
                /\ fs[k].timestamp >= orders[fs[k].sell_id].timestamp
                /\ \A j \in DOMAIN fs : j < k => fs[j].timestamp <= fs[k].timestamp

\* C23: best_bid is the highest bid level and best_ask the lowest ask level,
\* None on an empty side; spread is best_ask - best_bid when both sides hold
\* orders and None otherwise.
C23_BestAndSpread ==
    /\ IF DOMAIN bids = {} THEN best_bid = None
       ELSE /\ best_bid # None
            /\ Val(best_bid) \in DOMAIN bids
            /\ \A p \in DOMAIN bids : p <= Val(best_bid)
    /\ IF DOMAIN asks = {} THEN best_ask = None
       ELSE /\ best_ask # None
            /\ Val(best_ask) \in DOMAIN asks
            /\ \A p \in DOMAIN asks : p >= Val(best_ask)
    /\ IF DOMAIN bids # {} /\ DOMAIN asks # {}
       THEN spread_of(Book) = Some(SetMin(DOMAIN asks) - SetMax(DOMAIN bids))
       ELSE spread_of(Book) = None

\* Two bid levels and an ask level rest.
C23_Witness ==
    /\ Cardinality(DOMAIN bids) >= 2
    /\ DOMAIN asks # {}
    /\ spread_of(Book) # None

\* The values of the k argument of get_orders_at_price.
KArgs == {None} \cup {Some(k) : k \in 0..(MaxOrders + 1)}

\* The query calls of OrderBook.
Queries ==
    [op : {"get"}, arg : IdArgs]
    \cup [op : {"get_orders_at_price"}, price : 1..MaxPrice, side : OrderType,
          k : KArgs]
    \cup [op : {"best_bid", "best_ask", "spread", "buy_volume", "sell_volume",
                "open_volume"}]

\* A query call on the book b: the value it yields and the book after it.  Of
\* the queries only get_orders_at_price calls a method of a container.
query(b, q) ==
    CASE q.op = "get" -> [value |-> get(b, q.arg), book |-> b]
      [] q.op = "get_orders_at_price" ->
            get_orders_at_price(b, q.price, q.side, q.k)
      [] q.op = "best_bid" -> [value |-> best_bid_of(b), book |-> b]
      [] q.op = "best_ask" -> [value |-> best_ask_of(b), book |-> b]
      [] q.op = "spread" -> [value |-> spread_of(b), book |-> b]
      [] q.op = "buy_volume" -> [value |-> volume(b.orders, b.bids), book |-> b]
      [] q.op = "sell_volume" -> [value |-> volume(b.orders, b.asks), book |-> b]
      [] q.op = "open_volume" ->
            [value |-> volume(b.orders, b.bids) + volume(b.orders, b.asks),
             book |-> b]

\* C24: no query changes bids, asks, open_orders or an order.
C24_QueriesReadOnly == \A q \in Queries : query(Book, q).book = Book

\* Both sides hold orders, and a query for a price without a level yields the
\* empty list.
C24_Witness ==
    /\ DOMAIN bids # {} /\ DOMAIN asks # {}
    /\ \E price \in 1..MaxPrice :
          /\ price \notin DOMAIN bids
          /\ get_orders_at_price(Book, price, BUY, None).value = <<>>

\* A book that holds nothing, with the orders os.
Fresh(os) == [bids |-> <<>>, asks |-> <<>>, open_orders |-> {}, orders |-> os,
              fills |-> <<>>, pruned |-> 0]

\* C25: after clear() the queues and open_orders are empty, best_bid,
\* best_ask and spread are None, the volumes are 0, get finds none of the
\* orders that rested, no order changed, and add of any order does what it
\* does on a new book of the same configuration.
C25_ClearDropsAll ==
    [][Clear =>
          /\ bids' = <<>>
          /\ asks' = <<>>
          /\ open_orders' = {}
          /\ orders' = orders
          /\ best_bid_of(Book') = None
          /\ best_ask_of(Book') = None
          /\ spread_of(Book') = None
          /\ volume(orders', bids') = 0
          /\ volume(orders', asks') = 0
          /\ \A id \in open_orders : \A arg \in FormsOf(id) :
                get(Book', arg) = [raised |-> FALSE, value |-> None]
          /\ \A id \in Ids : add(Book', id) = add(Fresh(orders), id)]_vars

\* Quantity was cleared, and an order the clear dropped was added again and
\* rests.
C25_Witness ==
    /\ tick_size = None
    /\ acct.cleared > 0
    /\ acct.pruned = 0
    /\ acct.adds > Cardinality(submitted)
    /\ \A id \in Ids : orders[id].status = OPEN
    /\ Resting(returned.id)

\* C26: get_orders_at_price(price, side, k) is the first k orders of the
\* queue of that level, in queue order; the whole queue when k is None or
\* above its length; the empty list when the side has no such level.
C26_OrdersAtPrice ==
    \A price \in 1..MaxPrice, side \in OrderType, k \in KArgs :
        LET order_book == IF side = BUY THEN bids ELSE asks
            v == get_orders_at_price(Book, price, side, k).value
        IN  IF price \notin DOMAIN order_book THEN v = <<>>
            ELSE IF k = None THEN v = order_book[price]
            ELSE IF Val(k) > Len(order_book[price]) THEN v = order_book[price]
            ELSE v = [i \in 1..Val(k) |-> order_book[price][i]]

\* A level holds two orders, so that k = 1 yields a proper prefix.
C26_Witness ==
    \E p \in DOMAIN asks :
        /\ Len(asks[p]) >= 2
        /\ get_orders_at_price(Book, p, SELL, Some(1)).value = <<asks[p][1]>>

\* The orders a and b are a Buy and a Sell, the Buy priced at or above the
\* Sell.
Crosses(a, b) ==
    \/ a.side = BUY /\ b.side = SELL /\ a.price >= b.price
    \/ a.side = SELL /\ b.side = BUY /\ b.price >= a.price

\* C27: a.matches(b) holds exactly when a and b are on different sides and
\* the Buy's price is at or above the Sell's, and a.matches(b) = b.matches(a).
C27_Matches ==
    \A a \in Ids, b \in Ids :
        /\ matches(orders[a], orders[b]) = Crosses(orders[a], orders[b])
        /\ matches(orders[a], orders[b]) = matches(orders[b], orders[a])

\* A Buy and a Sell of one price were matched by the last add, and a Buy
\* priced below a Sell exists.
C27_Witness ==
    /\ \E k \in DOMAIN returned.fills :
          orders[returned.fills[k].buy_id].price
              = orders[returned.fills[k].sell_id].price
    /\ \E a \in Ids, b \in Ids :
          /\ orders[a].side = BUY /\ orders[b].side = SELL
          /\ orders[a].price < orders[b].price

LevelOf(book, p) == IF p \in DOMAIN book THEN book[p] ELSE <<>>

\* The orders of both queues keep their relative order, and an order only
\* the new queue holds is its last.
FifoKept(old, new) ==
    LET InNew(x) == x \in Range(new)
        InOld(x) == x \in Range(old)
    IN  /\ SelectSeq(old, InNew) = SelectSeq(new, InOld)
        /\ \A i \in 1..Len(new) : ~InOld(new[i]) => i = Len(new)

\* C28: in every step, at every level, an order that enters the queue enters
\* at its tail and the orders that stay keep their relative order; and a
\* maker an add left partially filled is the head of its queue.
C28_Fifo ==
    [][/\ \A p \in (DOMAIN bids) \cup (DOMAIN bids') :
             FifoKept(LevelOf(bids, p), LevelOf(bids', p))
       /\ \A p \in (DOMAIN asks) \cup (DOMAIN asks') :
             FifoKept(LevelOf(asks, p), LevelOf(asks', p))
       /\ \A id \in 1..MaxOrders :
             (AddStep /\ Add(id)) =>
                 \A m \in PartialMakers(id) :
                     LevelOf(IF orders[m].side = BUY THEN bids' ELSE asks',
                             orders[m].price)[1] = m]_vars

\* A level holds two orders and its head is partially filled.
C28_Witness ==
    \E p \in DOMAIN bids :
        /\ Len(bids[p]) >= 2
        /\ orders[bids[p][1]].quantity < orders[bids[p][1]].initial

\* C29: self.fill(incoming) of two orders that do not cross returns None and
\* changes nothing; otherwise, with q the lesser of the two quantities, it
\* takes q from both quantities, sets Filled the orders that reach 0, appends
\* one Fill to both fills lists and returns it, with quantity q and the ids
\* of the Buy and of the Sell.
C29_OrderFill ==
    \A sid \in Ids : \A iid \in Ids \ {sid} :
        LET self == orders[sid]
            incoming == orders[iid]
            r == OrderFill(orders, sid, iid)
        IN  IF ~Crosses(self, incoming)
            THEN r.fill = None /\ r.orders = orders
            ELSE LET q == IF self.quantity <= incoming.quantity
                          THEN self.quantity ELSE incoming.quantity
                     f == Val(r.fill)
                     After(x) ==
                         r.orders[x] =
                             [orders[x] EXCEPT
                                 !.quantity = @ - q,
                                 !.status = IF orders[x].quantity - q = 0
                                            THEN FILLED ELSE @,
                                 !.fills = Append(@, f)]
                 IN  /\ r.fill # None
                     /\ f.quantity = q
                     /\ f.buy_id = (IF self.side = BUY THEN sid ELSE iid)
                     /\ f.sell_id = (IF self.side = SELL THEN sid ELSE iid)
                     /\ After(sid)
                     /\ After(iid)
                     /\ \A x \in Ids \ {sid, iid} : r.orders[x] = orders[x]

\* Two Open orders of different quantities cross (one of them not yet given
\* to add), and an order records a fill.
C29_Witness ==
    /\ \E sid \in Ids, iid \in Ids :
          /\ Crosses(orders[sid], orders[iid])
          /\ orders[sid].status = OPEN /\ orders[iid].status = OPEN
          /\ orders[sid].quantity < orders[iid].quantity
    /\ \E id \in Ids : orders[id].fills # <<>>

\* C30: the price of every fill is at or above the price of its Sell order
\* and at or below the price of its Buy order.
C30_LimitRespected ==
    \A id \in Ids :
        \A k \in DOMAIN orders[id].fills :
            LET f == orders[id].fills[k]
            IN  /\ orders[f.sell_id].price <= f.price
                /\ f.price <= orders[f.buy_id].price

\* The last add matched a Sell against a resting Buy of a higher price.
C30_Witness ==
    \E k \in DOMAIN returned.fills :
        LET f == returned.fills[k]
        IN  /\ returned.id = f.sell_id
            /\ orders[f.sell_id].price < orders[f.buy_id].price

\* C31: on a book with a tick size and a market depth of N ticks, in every
\* state, every bid level is at or above best_bid - N * tick_size and every
\* ask level at or below best_ask + N * tick_size.
C31_WindowInvariant ==
    (tick_size # None /\ market_depth # None) =>
        /\ \A p \in DOMAIN bids :
              p >= SetMax(DOMAIN bids) - Val(market_depth) * Val(tick_size)
        /\ \A p \in DOMAIN asks :
              p <= SetMin(DOMAIN asks) + Val(market_depth) * Val(tick_size)

\* On a book that prunes, quantity was pruned, and a bid above the best bid
\* was canceled or filled, so that the window of the bids moved down.
C31_Witness ==
    /\ tick_size # None /\ market_depth # None
    /\ acct.pruned > 0
    /\ bids # <<>>
    /\ \E id \in submitted :
          /\ orders[id].side = BUY
          /\ orders[id].status \in {CANCELED, FILLED}
          /\ orders[id].price > SetMax(DOMAIN bids)

\* C32: the orders the depth enforcement of add(o) evicts, o among them when
\* it rested outside the window, are in no queue and not in open_orders, and
\* are as matching and resting left them: Open, with their quantity and fills.
C32_EvictedStaysOpen ==
    [][\A id \in 1..MaxOrders :
          (AddStep /\ Add(id) /\ ~Misaligned(id)) =>
              LET r == rest(_match(Book, id), id)
              IN  \A m \in r.open_orders \ open_orders' :
                      /\ ~RestingIn(bids', asks', m)
                      /\ orders'[m] = r.orders[m]
                      /\ orders'[m].status = OPEN
                      /\ orders'[m].quantity > 0]_vars

\* An order that was partially filled was evicted: it is Open, with its fill
\* and its residual quantity, and out of the book.
C32_Witness ==
    /\ acct.cleared = 0
    /\ acct.pruned > 0
    /\ \E id \in submitted :
          /\ ~Misaligned(id)
          /\ orders[id].status = OPEN
          /\ orders[id].fills # <<>>
          /\ id \notin open_orders
          /\ ~Resting(id)

\* C33: add(o) of an order that is Filled or Canceled returns the empty list
\* and changes neither the queues, nor open_orders, nor any order.
C33_TerminalAddNoop ==
    [][\A id \in 1..MaxOrders :
          (AddStep /\ Add(id) /\ orders[id].status \in {FILLED, CANCELED}) =>
              /\ add(Book, id).fills = <<>>
              /\ orders' = orders
              /\ bids' = bids
              /\ asks' = asks
              /\ open_orders' = open_orders]_vars

\* A Filled order was given to add again while an order it crosses rests;
\* nothing was cleared, pruned or rejected, so the order added twice was
\* Filled or Canceled.
C33_Witness ==
    /\ acct.cleared = 0 /\ acct.pruned = 0
    /\ acct.adds > Cardinality(submitted)
    /\ \A id \in submitted : ~Misaligned(id)
    /\ \E id \in submitted, m \in open_orders :
          /\ orders[id].status = FILLED
          /\ matches(orders[m], orders[id])

====
